---- MODULE Spec2Model ----
\* Startup schema-repair scripts for the notification tables:
\*   auto_migrate_notification_tables, fix_emoji_encoding   (auto_migrate_notifications.py)
\*   fix_notification_schema                                (fix_notification_schema.py)
\*   fix_rank_emojis                                        (fix_emoji_encoding.py)
\* and the connection test with retries:
\*   test_connection_with_retry                             (fix_postgres_connection.py)
\* Each script is modelled statement by statement.  Every statement sent to the
\* database may raise (the scripts wrap them in try/except); a statement that
\* raises changes nothing in the database.  A write into a table that does not
\* exist, or of a value its column cannot store, always raises.
EXTENDS Integers, Sequences, FiniteSets, TLC

--------------------------------------------------------------------------
\* Bounds of the model

\* number of consecutive script invocations explored
MaxRuns == 2

\* largest max_attempts test_connection_with_retry is called with (its
\* default is 5)
MaxAttempts == 5

--------------------------------------------------------------------------
\* Program constants and static data

NP == "notification_preferences"
NH == "notification_history"
PS == "post_subscriptions"
TC == "trending_cache"

\* auto_migrate_notifications.py:31
tables_to_check == <<NP, NH, PS>>

\* fix_notification_schema.py:27
fix_tables_to_check == <<NP, NH, PS, TC>>

\* fix_notification_schema.py:134
boolean_columns == <<"comment_notifications", "daily_digest", "trending_alerts">>

\* auto_migrate_notifications.py:170 and fix_notification_schema.py:176
test_user_id == 1298849354

\* len(rank_data), auto_migrate_notifications.py:220-228 and fix_emoji_encoding.py:16-24
NumRanks == 7

Managed == {NP, NH, PS}
AllTables == {NP, NH, PS, TC}
BoolCols == {boolean_columns[i] : i \in 1..Len(boolean_columns)}

\* an ordinary user of the application, next to the user the probe writes as
UserIds == {42, test_user_id}

\* largest value a 32-bit signed INTEGER column stores
Int32Max == (2^30 - 1) + 2^30

\* str.lower() on the type names the catalog can report
Lower(s) ==
  CASE s = "BIGINT"  -> "bigint"
    [] s = "INT8"    -> "int8"
    [] s = "INTEGER" -> "integer"
    [] OTHER         -> s

\* `data_type.lower() not in ['bigint', 'int8']`
NotBigint(dt) == Lower(dt) \notin {"bigint", "int8"}

\* the catalog returns a row for (table, 'user_id'): `if result`
HasUserId(d, t) == d.types[t] \notin {"absent", "none"}

TableExists(d, t) == d.types[t] # "absent"

\* a value can be stored in a user_id column of the table
Fits(d, t, v) ==
  \/ d.types[t] \in {"bigint", "int8"}
  \/ d.types[t] = "integer" /\ v <= Int32Max

Max(S) == CHOOSE x \in S : \A y \in S : y <= x

\* id SERIAL of notification_history
NextId(h) == IF h = {} THEN 1 ELSE 1 + Max({r.id : r \in h})

--------------------------------------------------------------------------
VARIABLES
  use_postgresql,    \* db_conn.use_postgresql
  db,                \* the database as the open connection sees it
  committed,         \* the committed database
  fn,                \* the script that is running
  pc,                \* its position
  idx,               \* index of the loop it is in
  col,               \* index of the inner boolean-column loop
  migration_needed,  \* auto_migrate_notification_tables' flag
  ret,               \* value returned by the last script
  runs,              \* invocations so far
  acquired,          \* db_conn.get_connection() was called in this run
  conn_failed,       \* ... and raised
  stmts,             \* kinds of statements issued in this run
  ddl,               \* DDL statements issued in this run, <<verb, table>>
  failed,            \* tables whose repair statement raised in this run
  visited,           \* tables whose existence check was issued in this run
  raised,            \* a statement the database could have executed raised in this run
  probe_failed,      \* the validation probe raised in this run
  pre,               \* the committed database when the run started
  \* test_connection_with_retry
  max_attempts,      \* its parameter
  attempt,           \* `for attempt in range(max_attempts)`
  variant,           \* `for i, url in enumerate(connection_params)`
  rpc,               \* its position
  result,            \* the value it returned
  log,               \* the connection variants tried, with their outcomes
  sleeps             \* the calls of time.sleep

retry_vars == <<max_attempts, attempt, variant, rpc, result, log, sleeps>>

script_vars == <<use_postgresql, db, committed, fn, pc, idx, col,
                 migration_needed, ret, runs, acquired, conn_failed, stmts,
                 ddl, failed, visited, raised, probe_failed, pre>>

vars == <<script_vars, retry_vars>>

\* what no step of a running script changes
frame == <<use_postgresql, fn, runs, pre, retry_vars>>

--------------------------------------------------------------------------
\* Databases the scripts can find at startup

\* a managed table is absent, or its user_id is INTEGER/SERIAL or BIGINT;
\* trending_cache exists and has no user_id column ("none")
ColStates == {"absent", "integer", "bigint"}

\* what a boolean column's cell can hold: a boolean, or the legacy numeric
\* encoding '1' / '0' that the boolean fix looks for
StoredValues == {"TRUE", "FALSE", "1", "0"}

\* rows of notification_preferences, user_id |-> comment_notifications: the
\* ordinary user has comment notifications on, the probe's user has them off
PrefRows == [u \in UserIds |-> IF u # test_user_id THEN "TRUE" ELSE "FALSE"]

\* the same rows in the legacy encoding
LegacyPrefRows == [u \in UserIds |-> IF u # test_user_id THEN "1" ELSE "0"]

HistRow == [id |-> 1, user_id |-> 42, notification_type |-> "comment"]

SubsRow == [user_id |-> 42, post_id |-> 1]

EmptyPref == [u \in {} |-> "TRUE"]

\* either the tables that exist hold the rows above, or they are all empty;
\* columns that still have their legacy defaults hold legacy values
InitDbs ==
  { [types    |-> [t \in AllTables |-> IF t = NP THEN a ELSE IF t = NH THEN b
                                       ELSE IF t = PS THEN c ELSE e],
     defaults |-> [k \in BoolCols |-> IF a = "absent" THEN "none" ELSE dflt],
     seq      |-> sq,
     pref     |-> IF data /\ a # "absent"
                    THEN (IF dflt = "legacy" THEN LegacyPrefRows ELSE PrefRows)
                    ELSE EmptyPref,
     hist     |-> IF data /\ b # "absent" THEN {HistRow} ELSE {},
     subs     |-> IF data /\ c # "absent" THEN {SubsRow} ELSE {}] :
    a \in ColStates, b \in ColStates, c \in ColStates, e \in {"none"},
    dflt \in {"legacy", "TRUE"}, sq \in BOOLEAN, data \in BOOLEAN }

WellFormed(d) ==
  /\ d.types[NP] = "absent" => d.pref = EmptyPref /\ d.defaults[boolean_columns[1]] = "none"
  /\ d.types[NP] # "absent" => d.defaults[boolean_columns[1]] # "none"
  /\ d.types[NH] = "absent" => d.hist = {}
  /\ d.types[PS] = "absent" => d.subs = {}
  \* a SERIAL user_id owns its sequence; a BIGINT one has none
  /\ d.seq => d.types[NP] = "integer"

Init ==
  /\ use_postgresql \in BOOLEAN
  /\ db \in {d \in InitDbs : WellFormed(d)}
  /\ committed = db
  /\ pre = db
  /\ fn = "none"
  /\ pc = "idle"
  /\ idx = 0
  /\ col = 0
  /\ migration_needed = FALSE
  /\ ret = "none"
  /\ runs = 0
  /\ acquired = FALSE
  /\ conn_failed = FALSE
  /\ stmts = {}
  /\ ddl = {}
  /\ failed = {}
  /\ visited = {}
  /\ raised = FALSE
  /\ probe_failed = FALSE
  \* test_connection_with_retry has not been called
  /\ max_attempts = 0
  /\ attempt = 0
  /\ variant = 0
  /\ rpc = "idle"
  /\ result = "none"
  /\ log = << >>
  /\ sleeps = << >>

--------------------------------------------------------------------------
\* Shared steps

\* the caller invokes script f
Call(f) ==
  /\ pc = "idle"
  /\ runs < MaxRuns
  /\ fn' = f
  /\ pc' = "entry"
  /\ runs' = runs + 1
  /\ pre' = committed
  /\ idx' = 0
  /\ col' = 0
  /\ migration_needed' = FALSE
  /\ ret' = "none"
  /\ acquired' = FALSE
  /\ conn_failed' = FALSE
  /\ stmts' = {}
  /\ ddl' = {}
  /\ failed' = {}
  /\ visited' = {}
  /\ raised' = FALSE
  /\ probe_failed' = FALSE
  /\ UNCHANGED <<use_postgresql, db, committed, retry_vars>>

\* `return v`: the `with` block releases the connection, uncommitted work is lost
Return(v) ==
  /\ pc' = "idle"
  /\ ret' = v
  /\ db' = committed

\* cursor.execute of a statement of the given kind
Issue(kind) == stmts' = stmts \cup {kind}

\* cursor.execute of a DDL statement
IssueDDL(verb, t) ==
  /\ stmts' = stmts \cup {"ddl"}
  /\ ddl' = ddl \cup {<<verb, t>>}

--------------------------------------------------------------------------
\* auto_migrate_notification_tables  (auto_migrate_notifications.py:12-203)

AM == "auto_migrate_notification_tables"

\* the engine test left out
AM_NotPostgres_NoTest == FALSE

\* `if not db_conn.use_postgresql` (line 19)
AM_NotPostgres == ~use_postgresql

\* the outer handler reporting success
AM_OuterExcept_True == "True"

\* value returned by the outer `except Exception` (lines 201-203)
AM_OuterExcept == "False"

\* value returned by the probe's `except Exception` (lines 194-196)
AM_ProbeExcept == "False"

\* lines 17-21
AM_Entry ==
  /\ fn = AM /\ pc = "entry"
  /\ IF AM_NotPostgres
       THEN Return("True")
       ELSE pc' = "connect" /\ ret' = ret /\ db' = db
  /\ UNCHANGED <<committed, idx, col, migration_needed, acquired, conn_failed,
                 stmts, ddl, failed, visited, raised, probe_failed>>
  /\ UNCHANGED frame

\* `with db_conn.get_connection() as conn` (lines 25-27)
AM_Connect ==
  /\ fn = AM /\ pc = "connect"
  /\ acquired' = TRUE
  /\ \E ok \in BOOLEAN :
       IF ok
         THEN /\ pc' = "detect" /\ idx' = 1
              /\ UNCHANGED <<db, ret, conn_failed>>
         ELSE /\ conn_failed' = TRUE
              /\ Return(AM_OuterExcept)
              /\ idx' = idx
  /\ UNCHANGED <<committed, col, migration_needed, stmts, ddl, failed, visited,
                 raised, probe_failed>>
  /\ UNCHANGED frame

\* one iteration of the detection loop (lines 33-55)
AM_Detect ==
  /\ fn = AM /\ pc = "detect"
  /\ Issue("catalog")
  /\ \E ok \in BOOLEAN :
       LET t == tables_to_check[idx] IN
       /\ raised' = (raised \/ ~ok)
       /\ IF ok /\ HasUserId(db, t) /\ NotBigint(db.types[t])
            THEN /\ migration_needed' = TRUE
                 /\ pc' = "decide" /\ idx' = idx
            ELSE /\ migration_needed' = migration_needed
                 /\ IF idx < Len(tables_to_check)
                      THEN pc' = "detect" /\ idx' = idx + 1
                      ELSE pc' = "decide" /\ idx' = idx
  /\ UNCHANGED <<db, committed, col, ret, acquired, conn_failed, ddl, failed,
                 visited, probe_failed>>
  /\ UNCHANGED frame

\* lines 57-61
AM_Decide ==
  /\ fn = AM /\ pc = "decide"
  /\ IF ~migration_needed
       THEN Return("True") /\ idx' = idx
       ELSE pc' = "exists" /\ idx' = 1 /\ ret' = ret /\ db' = db
  /\ UNCHANGED <<committed, col, migration_needed, acquired, conn_failed, stmts,
                 ddl, failed, visited, raised, probe_failed>>
  /\ UNCHANGED frame

\* a repair phase that ends with the first table's block
AM_NextTable_StopAfterFirst ==
  pc' = "commit" /\ idx' = idx

\* leave the try block of the current table (lines 106-109, 134-137, 162-165)
AM_NextTable ==
  IF idx < Len(tables_to_check)
    THEN pc' = "exists" /\ idx' = idx + 1
    ELSE pc' = "commit" /\ idx' = idx

\* `SELECT EXISTS (... information_schema.tables ...)` (lines 65-71, 111-117, 139-145)
AM_Exists ==
  /\ fn = AM /\ pc = "exists"
  /\ Issue("catalog")
  /\ visited' = visited \cup {tables_to_check[idx]}
  /\ \E ok \in BOOLEAN :
       /\ raised' = (raised \/ ~ok)
       /\ IF ok /\ TableExists(db, tables_to_check[idx])
            THEN pc' = "type" /\ idx' = idx
            ELSE AM_NextTable
  /\ UNCHANGED <<db, committed, col, migration_needed, ret, acquired,
                 conn_failed, ddl, failed, probe_failed>>
  /\ UNCHANGED frame

\* `SELECT data_type ...` and the test on it (lines 75-82, 120-127, 148-155)
AM_Type ==
  /\ fn = AM /\ pc = "type"
  /\ Issue("catalog")
  /\ \E ok \in BOOLEAN :
       LET t == tables_to_check[idx] IN
       /\ raised' = (raised \/ ~ok)
       /\ IF ok /\ HasUserId(db, t) /\ NotBigint(db.types[t])
            THEN pc' = "alter" /\ idx' = idx
            ELSE AM_NextTable
  /\ UNCHANGED <<db, committed, col, migration_needed, ret, acquired,
                 conn_failed, ddl, failed, visited, probe_failed>>
  /\ UNCHANGED frame

\* ALTER COLUMN user_id TYPE BIGINT USING user_id::bigint [, DROP DEFAULT]
AlterToBigint(d, t) == [d EXCEPT !.types[t] = "bigint"]

\* lines 84-88, 128-131, 156-159
AM_Alter ==
  /\ fn = AM /\ pc = "alter"
  /\ IssueDDL("ALTER TYPE", tables_to_check[idx])
  /\ \E ok \in BOOLEAN :
       LET t == tables_to_check[idx] IN
       /\ raised' = (raised \/ ~ok)
       /\ IF ok
            THEN /\ db' = AlterToBigint(db, t)
                 /\ failed' = failed
                 /\ IF t = NP THEN pc' = "drop_sequence" /\ idx' = idx
                              ELSE AM_NextTable
            ELSE /\ db' = db
                 /\ failed' = failed \cup {t}
                 /\ AM_NextTable
  /\ UNCHANGED <<committed, col, migration_needed, ret, acquired, conn_failed,
                 visited, probe_failed>>
  /\ UNCHANGED frame

\* the DROP SEQUENCE without a try/except of its own: a failure is the
\* table's failure and ends the table's block
AM_DropSequence_Fatal ==
  /\ fn = AM /\ pc = "drop_sequence"
  /\ IssueDDL("DROP SEQUENCE", NP)
  /\ \E ok \in BOOLEAN :
       /\ raised' = (raised \/ ~ok)
       /\ IF ok
            THEN /\ db' = [db EXCEPT !.seq = FALSE]
                 /\ failed' = failed
                 /\ pc' = "bool_defaults" /\ idx' = idx
            ELSE /\ db' = db
                 /\ failed' = failed \cup {NP}
                 /\ AM_NextTable
  /\ UNCHANGED <<committed, col, migration_needed, ret, acquired, conn_failed,
                 visited, probe_failed>>
  /\ UNCHANGED frame

\* DROP SEQUENCE IF EXISTS ... CASCADE inside its own try/except (lines 90-94)
AM_DropSequence ==
  /\ fn = AM /\ pc = "drop_sequence"
  /\ IssueDDL("DROP SEQUENCE", NP)
  /\ \E ok \in BOOLEAN :
       /\ raised' = (raised \/ ~ok)
       /\ db' = IF ok THEN [db EXCEPT !.seq = FALSE] ELSE db
  /\ pc' = "bool_defaults"
  /\ UNCHANGED <<committed, idx, col, migration_needed, ret, acquired,
                 conn_failed, failed, visited, probe_failed>>
  /\ UNCHANGED frame

\* ALTER COLUMN ... SET DEFAULT TRUE for the three boolean columns (lines 96-104)
AM_BoolDefaults ==
  /\ fn = AM /\ pc = "bool_defaults"
  /\ IssueDDL("ALTER DEFAULT", NP)
  /\ \E ok \in BOOLEAN :
       /\ raised' = (raised \/ ~ok)
       /\ db' = IF ok THEN [db EXCEPT !.defaults = [k \in BoolCols |-> "TRUE"]] ELSE db
       /\ failed' = IF ok THEN failed ELSE failed \cup {NP}
  /\ AM_NextTable
  /\ UNCHANGED <<committed, col, migration_needed, ret, acquired, conn_failed,
                 visited, probe_failed>>
  /\ UNCHANGED frame

\* `conn.commit()` after the three tables (lines 165-166)
AM_Commit ==
  /\ fn = AM /\ pc = "commit"
  /\ Issue("commit")
  /\ \E ok \in BOOLEAN :
       /\ raised' = (raised \/ ~ok)
       /\ IF ok
            THEN /\ committed' = db
                 /\ pc' = "probe_pref"
                 /\ UNCHANGED <<db, ret>>
            ELSE /\ committed' = committed
                 /\ Return(AM_OuterExcept)
  /\ UNCHANGED <<idx, col, migration_needed, acquired, conn_failed, ddl, failed,
                 visited, probe_failed>>
  /\ UNCHANGED frame

\* INSERT ... ON CONFLICT (user_id) DO UPDATE SET comment_notifications = TRUE
UpsertPref(d, u) ==
  [d EXCEPT !.pref = [x \in (DOMAIN d.pref) \cup {u} |->
                        IF x = u THEN "TRUE" ELSE d.pref[x]]]

\* INSERT INTO notification_history (user_id, notification_type, ...)
InsertHist(d, u, ty) ==
  [d EXCEPT !.hist = d.hist \cup
     {[id |-> NextId(d.hist), user_id |-> u, notification_type |-> ty]}]

\* DELETE FROM notification_history WHERE notification_type = ty
DeleteHist(d, ty) ==
  [d EXCEPT !.hist = {r \in d.hist : r.notification_type # ty}]

\* the probe's `except Exception as test_e` (lines 194-196)
AM_ProbeFails ==
  /\ probe_failed' = TRUE
  /\ Return(AM_ProbeExcept)

\* lines 175-179
AM_ProbePref ==
  /\ fn = AM /\ pc = "probe_pref"
  /\ Issue("probe")
  /\ \E ok \in (IF Fits(db, NP, test_user_id) THEN BOOLEAN ELSE {FALSE}) :
       /\ raised' = (raised \/ (Fits(db, NP, test_user_id) /\ ~ok))
       /\ IF ok
            THEN /\ db' = UpsertPref(db, test_user_id)
                 /\ pc' = "probe_hist"
                 /\ UNCHANGED <<ret, probe_failed>>
            ELSE AM_ProbeFails
  /\ UNCHANGED <<committed, idx, col, migration_needed, acquired, conn_failed,
                 ddl, failed, visited>>
  /\ UNCHANGED frame

\* lines 181-185
AM_ProbeHist ==
  /\ fn = AM /\ pc = "probe_hist"
  /\ Issue("probe")
  /\ \E ok \in (IF Fits(db, NH, test_user_id) THEN BOOLEAN ELSE {FALSE}) :
       /\ raised' = (raised \/ (Fits(db, NH, test_user_id) /\ ~ok))
       /\ IF ok
            THEN /\ db' = InsertHist(db, test_user_id, "migration_test")
                 /\ pc' = "probe_commit"
                 /\ UNCHANGED <<ret, probe_failed>>
            ELSE AM_ProbeFails
  /\ UNCHANGED <<committed, idx, col, migration_needed, acquired, conn_failed,
                 ddl, failed, visited>>
  /\ UNCHANGED frame

\* line 187
AM_ProbeCommit ==
  /\ fn = AM /\ pc = "probe_commit"
  /\ Issue("commit")
  /\ \E ok \in BOOLEAN :
       /\ raised' = (raised \/ ~ok)
       /\ IF ok
            THEN /\ committed' = db
                 /\ pc' = "probe_delete"
                 /\ UNCHANGED <<db, ret, probe_failed>>
            ELSE /\ committed' = committed
                 /\ AM_ProbeFails
  /\ UNCHANGED <<idx, col, migration_needed, acquired, conn_failed, ddl, failed,
                 visited>>
  /\ UNCHANGED frame

\* lines 190-191
AM_ProbeDelete ==
  /\ fn = AM /\ pc = "probe_delete"
  /\ Issue("probe")
  /\ \E ok \in (IF TableExists(db, NH) THEN BOOLEAN ELSE {FALSE}) :
       /\ raised' = (raised \/ (TableExists(db, NH) /\ ~ok))
       /\ IF ok
            THEN /\ db' = DeleteHist(db, "migration_test")
                 /\ pc' = "probe_commit2"
                 /\ UNCHANGED <<ret, probe_failed>>
            ELSE AM_ProbeFails
  /\ UNCHANGED <<committed, idx, col, migration_needed, acquired, conn_failed,
                 ddl, failed, visited>>
  /\ UNCHANGED frame

\* line 192
AM_ProbeCommit2 ==
  /\ fn = AM /\ pc = "probe_commit2"
  /\ Issue("commit")
  /\ \E ok \in BOOLEAN :
       /\ raised' = (raised \/ ~ok)
       /\ IF ok
            THEN /\ committed' = db
                 /\ pc' = "return"
                 /\ UNCHANGED <<db, ret, probe_failed>>
            ELSE /\ committed' = committed
                 /\ AM_ProbeFails
  /\ UNCHANGED <<idx, col, migration_needed, acquired, conn_failed, ddl, failed,
                 visited>>
  /\ UNCHANGED frame

\* lines 198-199
AM_Return ==
  /\ fn = AM /\ pc = "return"
  /\ Return("True")
  /\ UNCHANGED <<committed, idx, col, migration_needed, acquired, conn_failed,
                 stmts, ddl, failed, visited, raised, probe_failed>>
  /\ UNCHANGED frame

auto_migrate_notification_tables ==
  \/ AM_Entry \/ AM_Connect \/ AM_Detect \/ AM_Decide
  \/ AM_Exists \/ AM_Type \/ AM_Alter \/ AM_DropSequence \/ AM_BoolDefaults
  \/ AM_Commit \/ AM_ProbePref \/ AM_ProbeHist \/ AM_ProbeCommit
  \/ AM_ProbeDelete \/ AM_ProbeCommit2 \/ AM_Return

--------------------------------------------------------------------------
\* fix_notification_schema  (fix_notification_schema.py:12-214)

FS == "fix_notification_schema"

\* value returned by the outer `except Exception` (lines 209-214)
FS_OuterExcept == "False"

\* the probe's `except Exception as test_e` falls through to `return True`
\* (lines 203-207)
FS_ProbeExcept == "True"

\* lines 15-21
FS_Entry ==
  /\ fn = FS /\ pc = "entry"
  /\ IF ~use_postgresql
       THEN Return("True")
       ELSE pc' = "connect" /\ ret' = ret /\ db' = db
  /\ UNCHANGED <<committed, idx, col, migration_needed, acquired, conn_failed,
                 stmts, ddl, failed, visited, raised, probe_failed>>
  /\ UNCHANGED frame

\* `with db_conn.get_connection() as conn` (lines 23-24)
FS_Connect ==
  /\ fn = FS /\ pc = "connect"
  /\ acquired' = TRUE
  /\ \E ok \in BOOLEAN :
       IF ok
         THEN /\ pc' = "exists" /\ idx' = 1
              /\ UNCHANGED <<db, ret, conn_failed>>
         ELSE /\ conn_failed' = TRUE
              /\ Return(FS_OuterExcept)
              /\ idx' = idx
  /\ UNCHANGED <<committed, col, migration_needed, stmts, ddl, failed, visited,
                 raised, probe_failed>>
  /\ UNCHANGED frame

\* `continue` / end of the body of `for table_name in tables_to_check`
FS_NextTable ==
  IF idx < Len(fix_tables_to_check)
    THEN pc' = "exists" /\ idx' = idx + 1
    ELSE pc' = "commit" /\ idx' = idx

\* lines 30-45
FS_Exists ==
  /\ fn = FS /\ pc = "exists"
  /\ Issue("catalog")
  /\ visited' = visited \cup {fix_tables_to_check[idx]}
  /\ \E ok \in BOOLEAN :
       LET t == fix_tables_to_check[idx] IN
       /\ raised' = (raised \/ ~ok)
       /\ IF ~ok
            THEN Return(FS_OuterExcept) /\ idx' = idx
            ELSE /\ UNCHANGED <<db, ret>>
                 /\ IF TableExists(db, t) /\ t # TC
                      THEN pc' = "type" /\ idx' = idx
                      ELSE FS_NextTable
  /\ UNCHANGED <<committed, col, migration_needed, acquired, conn_failed, ddl,
                 failed, probe_failed>>
  /\ UNCHANGED frame

\* lines 46-58 and 115-119
FS_Type ==
  /\ fn = FS /\ pc = "type"
  /\ Issue("catalog")
  /\ \E ok \in BOOLEAN :
       LET t == fix_tables_to_check[idx] IN
       /\ raised' = (raised \/ ~ok)
       /\ IF ~ok
            THEN Return(FS_OuterExcept) /\ idx' = idx
            ELSE /\ UNCHANGED <<db, ret>>
                 /\ IF HasUserId(db, t) /\ NotBigint(db.types[t])
                      THEN pc' = "drop" /\ idx' = idx
                      ELSE IF t = NP
                             THEN pc' = "bool_query" /\ idx' = idx
                             ELSE FS_NextTable
  /\ UNCHANGED <<committed, col, migration_needed, acquired, conn_failed, ddl,
                 failed, visited, probe_failed>>
  /\ UNCHANGED frame

\* DROP TABLE IF EXISTS t CASCADE
DropTable(d, t) ==
  [d EXCEPT !.types[t] = "absent",
            !.defaults = IF t = NP THEN [k \in BoolCols |-> "none"] ELSE @,
            !.seq = IF t = NP THEN FALSE ELSE @,
            !.pref = IF t = NP THEN EmptyPref ELSE @,
            !.hist = IF t = NH THEN {} ELSE @,
            !.subs = IF t = PS THEN {} ELSE @]

\* CREATE TABLE t (... user_id BIGINT ..., BOOLEAN DEFAULT TRUE ...)
CreateTable(d, t) ==
  [d EXCEPT !.types[t] = "bigint",
            !.defaults = IF t = NP THEN [k \in BoolCols |-> "TRUE"] ELSE @]

\* lines 63, 80, 99
FS_Drop ==
  /\ fn = FS /\ pc = "drop"
  /\ IssueDDL("DROP TABLE", fix_tables_to_check[idx])
  /\ \E ok \in BOOLEAN :
       LET t == fix_tables_to_check[idx] IN
       /\ raised' = (raised \/ ~ok)
       /\ IF ok
            THEN /\ db' = DropTable(db, t)
                 /\ pc' = "create"
                 /\ UNCHANGED <<ret, failed>>
            ELSE /\ failed' = failed \cup {t}
                 /\ Return(FS_OuterExcept)
  /\ UNCHANGED <<committed, idx, col, migration_needed, acquired, conn_failed,
                 visited, probe_failed>>
  /\ UNCHANGED frame

\* lines 64-77, 81-96, 100-114
FS_Create ==
  /\ fn = FS /\ pc = "create"
  /\ IssueDDL("CREATE TABLE", fix_tables_to_check[idx])
  /\ \E ok \in BOOLEAN :
       LET t == fix_tables_to_check[idx] IN
       /\ raised' = (raised \/ ~ok)
       /\ IF ok
            THEN /\ db' = CreateTable(db, t)
                 /\ FS_NextTable
                 /\ UNCHANGED <<ret, failed>>
            ELSE /\ failed' = failed \cup {t}
                 /\ Return(FS_OuterExcept)
                 /\ idx' = idx
  /\ UNCHANGED <<committed, col, migration_needed, acquired, conn_failed,
                 visited, probe_failed>>
  /\ UNCHANGED frame

\* lines 119-134: the three boolean columns are listed, then fixed whatever
\* their defaults are
FS_BoolQuery ==
  /\ fn = FS /\ pc = "bool_query"
  /\ Issue("catalog")
  /\ \E ok \in BOOLEAN :
       /\ raised' = (raised \/ ~ok)
       /\ IF ok
            THEN pc' = "drop_default" /\ col' = 1 /\ UNCHANGED <<db, ret>>
            ELSE Return(FS_OuterExcept) /\ col' = col
  /\ UNCHANGED <<committed, idx, migration_needed, acquired, conn_failed, ddl,
                 failed, visited, probe_failed>>
  /\ UNCHANGED frame

\* `continue` / end of the body of `for col_name in boolean_columns`
FS_NextColumn ==
  IF col < Len(boolean_columns)
    THEN pc' = "drop_default" /\ col' = col + 1 /\ idx' = idx
    ELSE FS_NextTable /\ col' = col

\* lines 141-144
FS_DropDefault ==
  /\ fn = FS /\ pc = "drop_default"
  /\ IssueDDL("ALTER DEFAULT", NP)
  /\ \E ok \in BOOLEAN :
       /\ raised' = (raised \/ ~ok)
       /\ IF ok
            THEN /\ db' = [db EXCEPT !.defaults[boolean_columns[col]] = "none"]
                 /\ pc' = "set_default"
                 /\ UNCHANGED <<idx, col>>
            ELSE /\ db' = db
                 /\ FS_NextColumn
  /\ UNCHANGED <<committed, migration_needed, ret, acquired, conn_failed,
                 failed, visited, probe_failed>>
  /\ UNCHANGED frame

\* lines 147-150
FS_SetDefault ==
  /\ fn = FS /\ pc = "set_default"
  /\ IssueDDL("ALTER DEFAULT", NP)
  /\ \E ok \in BOOLEAN :
       /\ raised' = (raised \/ ~ok)
       /\ IF ok
            THEN /\ db' = [db EXCEPT !.defaults[boolean_columns[col]] = "TRUE"]
                 /\ pc' = "update"
                 /\ UNCHANGED <<idx, col>>
            ELSE /\ db' = db
                 /\ FS_NextColumn
  /\ UNCHANGED <<committed, migration_needed, ret, acquired, conn_failed,
                 failed, visited, probe_failed>>
  /\ UNCHANGED frame

\* `col::text` of a stored value
AsText(v) ==
  CASE v = "TRUE"  -> "true"
    [] v = "FALSE" -> "false"
    [] OTHER       -> v

\* a rewrite that takes every value other than '0' for true
RewriteBool_Truthy(v) ==
  IF AsText(v) = "0" THEN "FALSE" ELSE "TRUE"

\* CASE WHEN col::text = '1' THEN TRUE WHEN col::text = '0' THEN FALSE ELSE col END
RewriteBool(v) ==
  IF AsText(v) = "1" THEN "TRUE"
  ELSE IF AsText(v) = "0" THEN "FALSE"
  ELSE v

\* UPDATE notification_preferences SET c = CASE ... END  (rows carry
\* comment_notifications, the column the probes write)
UpdateBool(d, c) ==
  IF c = boolean_columns[1]
    THEN [d EXCEPT !.pref = [u \in DOMAIN d.pref |-> RewriteBool(d.pref[u])]]
    ELSE d

\* lines 153-167
FS_Update ==
  /\ fn = FS /\ pc = "update"
  /\ Issue("dml")
  /\ \E ok \in BOOLEAN :
       /\ raised' = (raised \/ ~ok)
       /\ db' = IF ok THEN UpdateBool(db, boolean_columns[col]) ELSE db
  /\ FS_NextColumn
  /\ UNCHANGED <<committed, migration_needed, ret, acquired, conn_failed, ddl,
                 failed, visited, probe_failed>>
  /\ UNCHANGED frame

\* lines 169-170
FS_Commit ==
  /\ fn = FS /\ pc = "commit"
  /\ Issue("commit")
  /\ \E ok \in BOOLEAN :
       /\ raised' = (raised \/ ~ok)
       /\ IF ok
            THEN /\ committed' = db
                 /\ pc' = "probe_pref"
                 /\ UNCHANGED <<db, ret>>
            ELSE /\ committed' = committed
                 /\ Return(FS_OuterExcept)
  /\ UNCHANGED <<idx, col, migration_needed, acquired, conn_failed, ddl, failed,
                 visited, probe_failed>>
  /\ UNCHANGED frame

\* INSERT ... ON CONFLICT (user_id) DO NOTHING
InsertPrefIfAbsent(d, u) ==
  [d EXCEPT !.pref = [x \in (DOMAIN d.pref) \cup {u} |->
                        IF x \in DOMAIN d.pref THEN d.pref[x] ELSE "TRUE"]]

\* lines 203-207
FS_ProbeFails ==
  /\ probe_failed' = TRUE
  /\ Return(FS_ProbeExcept)

\* lines 181-184
FS_ProbePref ==
  /\ fn = FS /\ pc = "probe_pref"
  /\ Issue("probe")
  /\ \E ok \in (IF Fits(db, NP, test_user_id) THEN BOOLEAN ELSE {FALSE}) :
       /\ raised' = (raised \/ (Fits(db, NP, test_user_id) /\ ~ok))
       /\ IF ok
            THEN /\ db' = InsertPrefIfAbsent(db, test_user_id)
                 /\ pc' = "probe_hist"
                 /\ UNCHANGED <<ret, probe_failed>>
            ELSE FS_ProbeFails
  /\ UNCHANGED <<committed, idx, col, migration_needed, acquired, conn_failed,
                 ddl, failed, visited>>
  /\ UNCHANGED frame

\* lines 186-190
FS_ProbeHist ==
  /\ fn = FS /\ pc = "probe_hist"
  /\ Issue("probe")
  /\ \E ok \in (IF Fits(db, NH, test_user_id) THEN BOOLEAN ELSE {FALSE}) :
       /\ raised' = (raised \/ (Fits(db, NH, test_user_id) /\ ~ok))
       /\ IF ok
            THEN /\ db' = InsertHist(db, test_user_id, "test")
                 /\ pc' = "probe_commit"
                 /\ UNCHANGED <<ret, probe_failed>>
            ELSE FS_ProbeFails
  /\ UNCHANGED <<committed, idx, col, migration_needed, acquired, conn_failed,
                 ddl, failed, visited>>
  /\ UNCHANGED frame

\* line 192
FS_ProbeCommit ==
  /\ fn = FS /\ pc = "probe_commit"
  /\ Issue("commit")
  /\ \E ok \in BOOLEAN :
       /\ raised' = (raised \/ ~ok)
       /\ IF ok
            THEN /\ committed' = db
                 /\ pc' = "count"
                 /\ col' = 1
                 /\ UNCHANGED <<db, ret, probe_failed>>
            ELSE /\ committed' = committed
                 /\ col' = col
                 /\ FS_ProbeFails
  /\ UNCHANGED <<idx, migration_needed, acquired, conn_failed, ddl, failed,
                 visited>>
  /\ UNCHANGED frame

\* the two SELECT COUNT(*) (lines 194-201); col counts them
FS_Count ==
  /\ fn = FS /\ pc = "count"
  /\ Issue("probe")
  /\ \E ok \in BOOLEAN :
       /\ raised' = (raised \/ ~ok)
       /\ IF ~ok
            THEN FS_ProbeFails /\ col' = col
            ELSE /\ UNCHANGED <<db, ret, probe_failed>>
                 /\ IF col < 2 THEN pc' = "count" /\ col' = col + 1
                               ELSE pc' = "return" /\ col' = col
  /\ UNCHANGED <<committed, idx, migration_needed, acquired, conn_failed, ddl,
                 failed, visited>>
  /\ UNCHANGED frame

\* line 207
FS_Return ==
  /\ fn = FS /\ pc = "return"
  /\ Return("True")
  /\ UNCHANGED <<committed, idx, col, migration_needed, acquired, conn_failed,
                 stmts, ddl, failed, visited, raised, probe_failed>>
  /\ UNCHANGED frame

fix_notification_schema ==
  \/ FS_Entry \/ FS_Connect \/ FS_Exists \/ FS_Type \/ FS_Drop \/ FS_Create
  \/ FS_BoolQuery \/ FS_DropDefault \/ FS_SetDefault \/ FS_Update
  \/ FS_Commit \/ FS_ProbePref \/ FS_ProbeHist \/ FS_ProbeCommit
  \/ FS_Count \/ FS_Return

--------------------------------------------------------------------------
\* fix_emoji_encoding  (auto_migrate_notifications.py:205-262) and
\* fix_rank_emojis     (fix_emoji_encoding.py:12-69): the same steps in both

FE == "fix_emoji_encoding"
FR == "fix_rank_emojis"

\* `if not db_conn.use_postgresql: return True`
RankEntry(f) ==
  /\ fn = f /\ pc = "entry"
  /\ IF ~use_postgresql
       THEN Return("True")
       ELSE pc' = "connect" /\ ret' = ret /\ db' = db
  /\ UNCHANGED <<committed, idx, col, migration_needed, acquired, conn_failed,
                 stmts, ddl, failed, visited, raised, probe_failed>>
  /\ UNCHANGED frame

\* `with db_conn.get_connection() as conn`; the outer except returns False
RankConnect(f) ==
  /\ fn = f /\ pc = "connect"
  /\ acquired' = TRUE
  /\ \E ok \in BOOLEAN :
       IF ok
         THEN /\ pc' = "update" /\ idx' = 1
              /\ UNCHANGED <<db, ret, conn_failed>>
         ELSE /\ conn_failed' = TRUE
              /\ Return("False")
              /\ idx' = idx
  /\ UNCHANGED <<committed, col, migration_needed, stmts, ddl, failed, visited,
                 raised, probe_failed>>
  /\ UNCHANGED frame

\* one UPDATE rank_definitions SET rank_emoji = ... ; a failure is logged and
\* the loop continues
RankUpdate(f) ==
  /\ fn = f /\ pc = "update"
  /\ Issue("dml")
  /\ \E ok \in BOOLEAN : raised' = (raised \/ ~ok)
  /\ IF idx < NumRanks
       THEN pc' = "update" /\ idx' = idx + 1
       ELSE pc' = "commit" /\ idx' = idx
  /\ UNCHANGED <<db, committed, col, migration_needed, ret, acquired,
                 conn_failed, ddl, failed, visited, probe_failed>>
  /\ UNCHANGED frame

\* `conn.commit()`
RankCommit(f) ==
  /\ fn = f /\ pc = "commit"
  /\ Issue("commit")
  /\ \E ok \in BOOLEAN :
       /\ raised' = (raised \/ ~ok)
       /\ IF ok
            THEN /\ committed' = db
                 /\ pc' = "select"
                 /\ UNCHANGED <<db, ret>>
            ELSE /\ committed' = committed
                 /\ Return("False")
  /\ UNCHANGED <<idx, col, migration_needed, acquired, conn_failed, ddl, failed,
                 visited, probe_failed>>
  /\ UNCHANGED frame

\* the test SELECT and `return True`
RankSelect(f) ==
  /\ fn = f /\ pc = "select"
  /\ Issue("probe")
  /\ \E ok \in BOOLEAN :
       /\ raised' = (raised \/ ~ok)
       /\ Return(IF ok THEN "True" ELSE "False")
  /\ UNCHANGED <<committed, idx, col, migration_needed, acquired, conn_failed,
                 ddl, failed, visited, probe_failed>>
  /\ UNCHANGED frame

fix_emoji_encoding ==
  \/ RankEntry(FE) \/ RankConnect(FE) \/ RankUpdate(FE) \/ RankCommit(FE)
  \/ RankSelect(FE)

fix_rank_emojis ==
  \/ RankEntry(FR) \/ RankConnect(FR) \/ RankUpdate(FR) \/ RankCommit(FR)
  \/ RankSelect(FR)

Functions == {AM, FS, FE, FR}

--------------------------------------------------------------------------
Next ==
  \/ \E f \in Functions : Call(f)
  \/ auto_migrate_notification_tables
  \/ fix_notification_schema
  \/ fix_emoji_encoding
  \/ fix_rank_emojis

Spec == Init /\ [][Next]_vars

--------------------------------------------------------------------------
\* test_connection_with_retry  (fix_postgres_connection.py:13-73)

\* default of the parameter `delay`, seconds
delay == 5

\* the URL as given, then with sslmode=prefer and sslmode=allow (lines 20-24)
connection_params == <<"sslmode=require", "sslmode=prefer", "sslmode=allow">>

\* how the body of the inner try ends: it runs through, it raises
\* psycopg2.OperationalError, or it raises another exception
Outcomes == {"ok", "OperationalError", "Exception"}

\* a database on which the repair scripts have nothing to do
IdleDb ==
  [types    |-> [t \in AllTables |-> IF t = TC THEN "none" ELSE "bigint"],
   defaults |-> [k \in BoolCols |-> "TRUE"],
   seq      |-> FALSE,
   pref     |-> EmptyPref,
   hist     |-> {},
   subs     |-> {}]

\* test_connection_with_retry(max_attempts) is called; no repair script runs
InitRetry ==
  /\ max_attempts \in 0..MaxAttempts
  /\ attempt = 0
  /\ variant = 0
  /\ rpc = "loop"
  /\ result = "none"
  /\ log = << >>
  /\ sleeps = << >>
  /\ use_postgresql = TRUE
  /\ db = IdleDb /\ committed = db /\ pre = db
  /\ fn = "none" /\ pc = "idle" /\ idx = 0 /\ col = 0
  /\ migration_needed = FALSE /\ ret = "none" /\ runs = 0
  /\ acquired = FALSE /\ conn_failed = FALSE
  /\ stmts = {} /\ ddl = {} /\ failed = {} /\ visited = {}
  /\ raised = FALSE /\ probe_failed = FALSE

\* `for attempt in range(max_attempts)` (line 15), `return False` (line 73)
Retry_Loop ==
  /\ rpc = "loop"
  /\ IF attempt < max_attempts
       THEN rpc' = "connect" /\ variant' = 1 /\ result' = result
       ELSE rpc' = "done" /\ variant' = variant /\ result' = "False"
  /\ UNCHANGED <<max_attempts, attempt, log, sleeps>>
  /\ UNCHANGED script_vars

\* the variant has been tried and ended with outcome o
Logged(o) == Append(log, [attempt |-> attempt, variant |-> variant, outcome |-> o])

\* `except psycopg2.OperationalError: continue` (lines 61-63) goes to the next
\* variant; any other exception leaves the inner loop for the handler of
\* line 65
Retry_Except(o) ==
  IF o = "OperationalError" /\ variant < Len(connection_params)
    THEN rpc' = "connect" /\ variant' = variant + 1
    ELSE rpc' = "after" /\ variant' = variant

\* `conn = psycopg2.connect(url)` (line 29)
Retry_Connect ==
  /\ rpc = "connect"
  /\ \E o \in Outcomes :
       IF o = "ok"
         THEN rpc' = "queries" /\ UNCHANGED <<variant, log>>
         ELSE log' = Logged(o) /\ Retry_Except(o)
  /\ UNCHANGED <<max_attempts, attempt, result, sleeps>>
  /\ UNCHANGED script_vars

\* the queries on the open connection, then `return True` (lines 31-59)
Retry_Queries ==
  /\ rpc = "queries"
  /\ \E o \in Outcomes :
       IF o = "ok"
         THEN /\ log' = Logged("returned")
              /\ rpc' = "done" /\ result' = "True" /\ variant' = variant
         ELSE /\ log' = Logged(o)
              /\ Retry_Except(o) /\ result' = result
  /\ UNCHANGED <<max_attempts, attempt, sleeps>>
  /\ UNCHANGED script_vars

\* time.sleep is called after every attempt
Retry_SleepAlways == TRUE

\* `if attempt < max_attempts - 1` (line 68)
Retry_SleepNeeded == attempt < max_attempts - 1

\* lines 68-70, then the next iteration of the outer loop
Retry_After ==
  /\ rpc = "after"
  /\ sleeps' = IF Retry_SleepNeeded
                 THEN Append(sleeps, [after |-> attempt, seconds |-> delay])
                 ELSE sleeps
  /\ attempt' = attempt + 1
  /\ rpc' = "loop"
  /\ UNCHANGED <<max_attempts, variant, result, log>>
  /\ UNCHANGED script_vars

test_connection_with_retry ==
  \/ Retry_Loop \/ Retry_Connect \/ Retry_Queries \/ Retry_After

\* the function runs on once called: every step that is enabled is taken
SpecRetry ==
  InitRetry /\ [][test_connection_with_retry]_vars
            /\ WF_vars(test_connection_with_retry)

--------------------------------------------------------------------------
\* Properties

\* the last script invoked has returned
Returned == pc = "idle" /\ runs > 0

\* a reconciliation script ran against PostgreSQL and got its connection
Reconciled(f) == Returned /\ fn = f /\ use_postgresql /\ ~conn_failed

\* every existing managed table of d has a bigint/int8 user_id
Conformant(d) ==
  \A t \in Managed : TableExists(d, t) => ~NotBigint(d.types[t])

\* table t of d exists with a user_id that is not bigint
Narrow(d, t) == HasUserId(d, t) /\ NotBigint(d.types[t])

\* every row of table t in a is in b with the same values
RowsKept(a, b, t) ==
  CASE t = NP -> \A u \in DOMAIN a.pref : u \in DOMAIN b.pref /\ b.pref[u] = a.pref[u]
    [] t = NH -> a.hist \subseteq b.hist
    [] t = PS -> a.subs \subseteq b.subs

\* C1: started on a catalog whose existing managed tables all have a bigint
\* user_id, auto_migrate_notification_tables and fix_notification_schema issue
\* no DDL statement at all.
C1_ZeroDDLWhenConformant ==
  (fn \in {AM, FS} /\ Conformant(pre)) => ddl = {}

\* C2: after auto_migrate_notification_tables has run without any statement
\* error, every managed table that had an INTEGER user_id reports bigint and
\* still holds every row it held before, unchanged.
C2_WidenedRowsUnchanged ==
  (Reconciled(AM) /\ ~raised /\ ~probe_failed) =>
    \A t \in Managed :
      Narrow(pre, t) => committed.types[t] = "bigint" /\ RowsKept(pre, committed, t)

\* C3: when fix_notification_schema has recreated a table and returned
\* success, every row the table held before is still in it.
C3_RecreateKeepsRows ==
  (Reconciled(FS) /\ ret = "True") =>
    \A t \in Managed :
      <<"CREATE TABLE", t>> \in ddl => RowsKept(pre, committed, t)

\* C4: whatever statement raises, a pass of auto_migrate_notification_tables
\* (once it has decided to migrate) or of fix_notification_schema still checks
\* every table of its list before it returns.
C4_EveryTableStillChecked ==
  /\ (Reconciled(AM) /\ migration_needed) => visited = Managed
  /\ Reconciled(FS) => visited = AllTables

\* C5: a run of auto_migrate_notification_tables in which the repair of some
\* table was attempted and raised returns False.
C5_FailedRepairReturnsFalse ==
  (Reconciled(AM) /\ failed # {}) => ret = "False"

\* C6: whichever managed tables are absent, a run of
\* auto_migrate_notification_tables in which no statement that the database
\* could execute raised returns True.
C6_AbsentTableIsNotFailure ==
  (Reconciled(AM) /\ ~raised) => ret = "True"

\* C7: when use_postgresql is false each of the four scripts returns True
\* from its first step: it never asks for a connection, never issues a query,
\* DDL, commit or probe, and leaves the database as it found it.
C7_NonPostgresReturnsAtOnce ==
  (fn \in Functions /\ ~use_postgresql) =>
    /\ pc \in {"entry", "idle"}
    /\ ~acquired
    /\ stmts = {} /\ ddl = {}
    /\ committed = pre /\ db = pre
    /\ Returned => ret = "True"

C7_Witness ==
  /\ Returned /\ fn = AM /\ ~use_postgresql /\ ret = "True"
  /\ ~Conformant(pre)

\* C8: the committed schema is never a mixture: either no managed table has
\* been widened since the run started, or every table that was narrow then is
\* bigint now.
C8_CommittedNeverMixed ==
  fn \in {AM, FS} =>
    \/ \A t \in Managed : committed.types[t] = pre.types[t]
    \/ \A t \in Managed : Narrow(pre, t) => committed.types[t] = "bigint"

\* C9: when db_conn.get_connection() raises, the script has issued no
\* statement, has changed nothing, and returns False to its caller.
C9_ConnectionFailureReturnsFalse ==
  conn_failed =>
    /\ Returned /\ ret = "False"
    /\ stmts = {} /\ ddl = {}
    /\ committed = pre /\ db = pre

C9_Witness ==
  /\ conn_failed /\ fn = AM /\ Returned /\ ret = "False"
  /\ ~Conformant(pre)

\* C10: the step at which the validation probe fails leaves the committed
\* schema as it is and makes the script return True.
C10_ProbeFailureOnlyReported ==
  [][(fn \in {AM, FS} /\ ~probe_failed /\ probe_failed') =>
       (committed'.types = committed.types /\ ret' = "True")]_vars

\* C11: the validation probe writes an identifier above the 32-bit signed
\* range, so a probe insert has succeeded only where the user_id column it
\* wrote is bigint: notification_preferences once the first insert is past,
\* notification_history as well once the second is.
C11_ProbeValueExceedsInt32 ==
  (fn \in {AM, FS} /\ pc \in {"probe_hist", "probe_commit"}) =>
    /\ test_user_id > Int32Max
    /\ ~NotBigint(db.types[NP])
    /\ pc = "probe_commit" => ~NotBigint(db.types[NH])

\* C12: after a run whose probe succeeded, notification_preferences and
\* notification_history hold exactly the rows they held before the probe.
\* Before the probe auto_migrate_notification_tables has changed no row;
\* fix_notification_schema may have rewritten values, and emptied the tables
\* it recreated.
C12_ProbePersistsNothing ==
  \A f \in {AM, FS} :
    ( /\ Reconciled(f) /\ ret = "True"
      /\ "probe" \in stmts /\ ~probe_failed
      /\ \A t \in Managed : <<"DROP TABLE", t>> \notin ddl ) =>
        /\ DOMAIN committed.pref = DOMAIN pre.pref
        /\ committed.hist = pre.hist
        /\ f = AM => committed.pref = pre.pref

\* C13: the boolean rewrite is value-preserving and idempotent.  After a run
\* of fix_notification_schema whose statements all succeeded and that kept
\* notification_preferences, a row that held '1' holds TRUE, a row that held
\* '0' holds FALSE and a row that held a boolean holds the same boolean (so
\* a second run leaves what the first wrote); rewriting a rewritten value
\* gives that value again.
C13_BooleanRewriteIdempotent ==
  /\ ( /\ Reconciled(FS) /\ ret = "True" /\ ~raised
       /\ "dml" \in stmts /\ <<"DROP TABLE", NP>> \notin ddl ) =>
         \A u \in DOMAIN pre.pref :
           /\ pre.pref[u] = "1" => committed.pref[u] = "TRUE"
           /\ pre.pref[u] = "0" => committed.pref[u] = "FALSE"
           /\ pre.pref[u] \in {"TRUE", "FALSE"} => committed.pref[u] = pre.pref[u]
  /\ \A v \in StoredValues :
       /\ RewriteBool(v) \in {"TRUE", "FALSE"}
       /\ RewriteBool(RewriteBool(v)) = RewriteBool(v)

\* a run that rewrote one row from '1' and another from '0'
C13_Witness ==
  /\ Reconciled(FS) /\ ret = "True" /\ ~raised
  /\ "dml" \in stmts /\ <<"DROP TABLE", NP>> \notin ddl
  /\ 42 \in DOMAIN pre.pref /\ test_user_id \in DOMAIN pre.pref
  /\ pre.pref[42] = "1" /\ committed.pref[42] = "TRUE"
  /\ pre.pref[test_user_id] = "0" /\ committed.pref[test_user_id] = "FALSE"

\* C14: the defaults of the three boolean columns are reconciled whether or
\* not user_id needed widening: after a run of either reconcile function in
\* which no statement raised, on a database where notification_preferences
\* existed, every boolean column's committed default is TRUE.
C14_DefaultsReconciledIndependently ==
  \A f \in {AM, FS} :
    (Reconciled(f) /\ ~raised /\ TableExists(pre, NP)) =>
      \A k \in BoolCols : committed.defaults[k] = "TRUE"

\* DDL that replaces a table or retypes its user_id
Destructive == {"DROP TABLE", "CREATE TABLE", "ALTER TYPE"}

\* C16: a run that follows a run that returned True is not destructive.  A
\* run starts on what the run before it committed, so: a run that returns
\* True leaves every existing managed table's user_id acceptable, and a run
\* that starts on such a catalog issues no DROP TABLE, no CREATE TABLE and no
\* ALTER COLUMN ... TYPE.
C16_SecondRunNotDestructive ==
  /\ \A f \in {AM, FS} :
       (Reconciled(f) /\ ret = "True") => Conformant(committed)
  /\ (fn \in {AM, FS} /\ Conformant(pre)) =>
       \A e \in ddl : e[1] \notin Destructive

\* C15: dropping the stale sequence is not fatal.  Whether the DROP SEQUENCE
\* succeeds, finds no sequence or raises, the step goes on to the boolean
\* defaults of notification_preferences, records no failed table and sets no
\* return value; and a run that issued it has issued the boolean-default
\* statement and has checked all three tables by the time it returns.
C15_DropSequenceNonFatal ==
  /\ [][(fn = AM /\ pc = "drop_sequence") =>
          (pc' = "bool_defaults" /\ idx' = idx /\ failed' = failed /\ ret' = ret)]_vars
  /\ []((Reconciled(AM) /\ <<"DROP SEQUENCE", NP>> \in ddl) =>
          (<<"ALTER DEFAULT", NP>> \in ddl /\ visited = Managed))

\* the DROP SEQUENCE raised (the sequence is still there), notification_history
\* was widened after it and the run returned True
C15_Witness ==
  /\ Reconciled(AM) /\ ret = "True"
  /\ <<"DROP SEQUENCE", NP>> \in ddl /\ committed.seq
  /\ failed = {}
  /\ committed.defaults[boolean_columns[1]] = "TRUE"
  /\ Narrow(pre, NH) /\ committed.types[NH] = "bigint"

\* index of the first table the detection loop finds non-conformant
FirstNarrow(d) ==
  CHOOSE i \in 1..Len(tables_to_check) :
    /\ Narrow(d, tables_to_check[i])
    /\ \A j \in 1..(i - 1) : ~Narrow(d, tables_to_check[j])

\* C17: in auto_migrate_notification_tables, with no statement error, the
\* detection loop stops at the first table whose user_id is not bigint, the
\* repair phase checks all three tables, every table that was narrow is
\* widened and receives the ALTER, and a table that was not receives no DDL.
C17_EveryNarrowTableWidened ==
  /\ (fn = AM /\ pc = "decide" /\ migration_needed /\ ~raised) =>
       idx = FirstNarrow(db)
  /\ (Reconciled(AM) /\ ~raised) =>
       \A t \in Managed :
         /\ Narrow(pre, t) =>
              /\ visited = Managed
              /\ <<"ALTER TYPE", t>> \in ddl
              /\ committed.types[t] = "bigint"
         /\ ~Narrow(pre, t) => \A e \in ddl : e[2] # t

\* the first and the last table were narrow and both were widened, the one
\* between them was bigint and was left alone
C17_Witness ==
  /\ Reconciled(AM) /\ ~raised /\ ret = "True"
  /\ Narrow(pre, NP) /\ Narrow(pre, PS) /\ pre.types[NH] = "bigint"
  /\ committed.types[NP] = "bigint" /\ committed.types[PS] = "bigint"
  /\ <<"ALTER TYPE", PS>> \in ddl /\ <<"ALTER TYPE", NH>> \notin ddl

\* the sleeps of a call that went through n attempts before its last one: one
\* of `delay` seconds after each of them
SleepsBetween(n) == [k \in 1..n |-> [after |-> k - 1, seconds |-> delay]]

\* C18: test_connection_with_retry terminates.  It tries the variants of an
\* attempt in order and at most once each, within attempts 0..max_attempts-1;
\* a variant that connects and completes its queries is the last thing it
\* tries and makes it return True; it returns False only after all
\* max_attempts attempts, none of which completed; and it has slept `delay`
\* seconds after every attempt but the last one it made.
C18_RetryTerminates ==
  /\ <>(rpc = "done")
  /\ [](/\ attempt \in 0..max_attempts
        /\ \A k \in DOMAIN log :
             /\ log[k].attempt \in 0..(max_attempts - 1)
             /\ log[k].variant \in 1..Len(connection_params)
             /\ log[k].outcome = "returned" =>
                  k = Len(log) /\ rpc = "done" /\ result = "True"
             /\ \A l \in DOMAIN log : k < l =>
                  \/ log[k].attempt < log[l].attempt
                  \/ log[k].attempt = log[l].attempt /\ log[k].variant < log[l].variant
        /\ rpc = "done" =>
             /\ result \in {"True", "False"}
             /\ result = "True" =>
                  /\ log # << >> /\ log[Len(log)].outcome = "returned"
                  /\ sleeps = SleepsBetween(log[Len(log)].attempt)
             /\ result = "False" =>
                  /\ {log[k].attempt : k \in DOMAIN log} = 0..(max_attempts - 1)
                  /\ sleeps = SleepsBetween(IF max_attempts = 0 THEN 0
                                                               ELSE max_attempts - 1))

\* the default call failed at every variant of every attempt but returned
\* True at the second variant of its last attempt
C18_Witness ==
  /\ rpc = "done" /\ result = "True"
  /\ max_attempts = MaxAttempts
  /\ Len(log) = Len(connection_params) * (max_attempts - 1) + 2
  /\ Len(sleeps) = max_attempts - 1

====
